---- MODULE Spec2Model ----
(***************************************************************************)
(* Model of the SharedMutex admission engine and its LockHandle            *)
(* (src/src/core/SharedMutex.ts).                                          *)
(*                                                                         *)
(* Reservations are numbered 1, 2, ... in the order in which they are      *)
(* created, so i < j means that reservation i was requested before j.      *)
(* A promise that never rejects is represented by the set of reservations  *)
(* whose release it waits for: Promise.resolve() is {}, the unlockPromise  *)
(* of reservation i is {i}, Promise.all(group).then(...) is the set of the *)
(* members of group.  Such a promise is resolved once every member's       *)
(* unlockPromise is resolved.                                              *)
(***************************************************************************)
EXTENDS Integers, Sequences, FiniteSets, TLC

\* Number of reservations a run may create.
MaxReq == 4

Ids == 1..MaxReq

\* Number of acquisitions a run may make through an AsyncSharedMutex.
MaxTasks == 3

VARIABLES
  lockCount,      \* SharedMutex.lockCount
  exclusiveTail,  \* SharedMutex.exclusiveTail, as the set of reservations it waits for
  sharedGroup,    \* SharedMutex.sharedGroup, the sequence of unlockPromises (by reservation)
  lockPromise,    \* per reservation: "none" | "pending" | "resolved"
  unlockPromise,  \* per reservation: "none" | "pending" | "resolved"
  gate,           \* per reservation: the promise its resolveLock callback is chained on
  unlockFn,       \* per handle: TRUE while LockHandle.unlockFn is not null
  req,            \* per reservation: the method that created it
  lastOp,         \* the last call made and what it returned
  task,           \* AsyncSharedMutex, per acquisition: "none" | "awaiting" | "running" | "finished"
  outcome,        \* per acquisition: how its task ended: "none" | "value" | "reject" | "throw"
  settled,        \* per acquisition: the promise given to the caller: "none" | "fulfilled" | "rejected"
  taskCalls       \* number of task invocations made by AsyncSharedMutex.run

vars == <<lockCount, exclusiveTail, sharedGroup, lockPromise, unlockPromise,
          gate, unlockFn, req, lastOp, task, outcome, settled, taskCalls>>

mutexVars == <<lockCount, exclusiveTail, sharedGroup, lockPromise, unlockPromise,
               gate, unlockFn, req>>

runnerVars == <<task, outcome, settled, taskCalls>>

Range(s) == {s[k] : k \in 1..Len(s)}

\* Reservations created so far, and the identity of the next one.
Created == {i \in Ids : unlockPromise[i] # "none"}
NextId == Cardinality(Created) + 1

\* A promise (set of reservations waited for) is resolved.
Resolved(p) == \A j \in p : unlockPromise[j] = "resolved"

IsExclusive(i) == req[i] \in {"lock", "tryLock"}
IsShared(i) == req[i] \in {"lockShared", "tryLockShared"}

\* The caller has received the handle of reservation i.
Granted(i) ==
  \/ lockPromise[i] = "resolved"
  \/ req[i] \in {"tryLock", "tryLockShared"}

\* Reservation i has been created and its handle has not been unlocked.
Outstanding(i) == unlockPromise[i] = "pending"

\* The handle of i is granted and not yet unlocked.
Held(i) == Granted(i) /\ Outstanding(i)

\* Reservation i is created and its grant has not resolved.
Queued(i) == lockPromise[i] = "pending"

Init ==
  /\ lockCount = 0
  /\ exclusiveTail = {}
  /\ sharedGroup = <<>>
  /\ lockPromise = [i \in Ids |-> "none"]
  /\ unlockPromise = [i \in Ids |-> "none"]
  /\ gate = [i \in Ids |-> {}]
  /\ unlockFn = [i \in Ids |-> FALSE]
  /\ req = [i \in Ids |-> "none"]
  /\ lastOp = [op |-> "new", id |-> 0, ret |-> "none"]
  /\ task = [i \in Ids |-> "none"]
  /\ outcome = [i \in Ids |-> "none"]
  /\ settled = [i \in Ids |-> "none"]
  /\ taskCalls = 0

recordLock == lockCount' = lockCount + 1

\* recordUnlock() that leaves the count alone.
recordUnlockForgets == lockCount' = lockCount

recordUnlock == lockCount' = lockCount - 1

\* createAcquiredLock(): a fresh unlockPromise, a handle owning the unlock
\* closure, and the count incremented.
createAcquiredLock(id) ==
  /\ recordLock
  /\ unlockPromise' = [unlockPromise EXCEPT ![id] = "pending"]
  /\ unlockFn' = [unlockFn EXCEPT ![id] = TRUE]

\* createPendingLock() that counts the reservation only when it is granted.
createPendingLockUncounted(id, tail) ==
  /\ unlockPromise' = [unlockPromise EXCEPT ![id] = "pending"]
  /\ unlockFn' = [unlockFn EXCEPT ![id] = TRUE]
  /\ lockPromise' = [lockPromise EXCEPT ![id] = "pending"]
  /\ gate' = [gate EXCEPT ![id] = tail]
  /\ UNCHANGED lockCount

\* createPendingLock() that chains on the release signal of the reservation
\* it creates instead of on the tail it was given.
createPendingLockOnSelf(id, tail) ==
  /\ createAcquiredLock(id)
  /\ lockPromise' = [lockPromise EXCEPT ![id] = "pending"]
  /\ gate' = [gate EXCEPT ![id] = {id}]

\* createPendingLock(): a fresh lockPromise whose resolution is chained on
\* the exclusive tail `tail` that is current when it is called.
createPendingLock(id, tail) ==
  /\ createAcquiredLock(id)
  /\ lockPromise' = [lockPromise EXCEPT ![id] = "pending"]
  /\ gate' = [gate EXCEPT ![id] = tail]

\* lock() that never folds the shared cohort into the tail.
LockNoFold ==
  /\ NextId <= MaxReq
  /\ LET id == NextId
     IN /\ createPendingLock(id, exclusiveTail)
        /\ sharedGroup' = <<>>
        /\ exclusiveTail' = {id}
        /\ req' = [req EXCEPT ![id] = "lock"]
        /\ lastOp' = [op |-> "lock", id |-> id, ret |-> "promise"]

\* lock()
Lock ==
  /\ NextId <= MaxReq
  /\ LET id == NextId
         folded == IF Len(sharedGroup) > 0 THEN Range(sharedGroup) ELSE exclusiveTail
     IN /\ createPendingLock(id, folded)
        /\ sharedGroup' = <<>>
        /\ exclusiveTail' = {id}
        /\ req' = [req EXCEPT ![id] = "lock"]
        /\ lastOp' = [op |-> "lock", id |-> id, ret |-> "promise"]

\* tryLock() that does not install its release signal as the tail.
TryLockKeepsTail ==
  IF lockCount > 0
  THEN /\ lastOp' = [op |-> "tryLock", id |-> 0, ret |-> "null"]
       /\ UNCHANGED mutexVars
  ELSE /\ NextId <= MaxReq
       /\ LET id == NextId
          IN /\ createAcquiredLock(id)
             /\ req' = [req EXCEPT ![id] = "tryLock"]
             /\ lastOp' = [op |-> "tryLock", id |-> id, ret |-> "handle"]
             /\ UNCHANGED <<exclusiveTail, sharedGroup, lockPromise, gate>>

\* tryLock() that applies the admission test of tryLockShared().
TryLockCohortTest ==
  IF lockCount > Len(sharedGroup)
  THEN /\ lastOp' = [op |-> "tryLock", id |-> 0, ret |-> "null"]
       /\ UNCHANGED mutexVars
  ELSE /\ NextId <= MaxReq
       /\ LET id == NextId
          IN /\ createAcquiredLock(id)
             /\ exclusiveTail' = {id}
             /\ req' = [req EXCEPT ![id] = "tryLock"]
             /\ lastOp' = [op |-> "tryLock", id |-> id, ret |-> "handle"]
             /\ UNCHANGED <<sharedGroup, lockPromise, gate>>

\* tryLock()
TryLock ==
  IF lockCount > 0
  THEN /\ lastOp' = [op |-> "tryLock", id |-> 0, ret |-> "null"]
       /\ UNCHANGED mutexVars
  ELSE /\ NextId <= MaxReq
       /\ LET id == NextId
          IN /\ createAcquiredLock(id)
             /\ exclusiveTail' = {id}
             /\ req' = [req EXCEPT ![id] = "tryLock"]
             /\ lastOp' = [op |-> "tryLock", id |-> id, ret |-> "handle"]
             /\ UNCHANGED <<sharedGroup, lockPromise, gate>>

\* lockShared() that installs its own release signal as the exclusive tail.
LockSharedMovesTail ==
  /\ NextId <= MaxReq
  /\ LET id == NextId
     IN /\ createPendingLock(id, exclusiveTail)
        /\ sharedGroup' = Append(sharedGroup, id)
        /\ exclusiveTail' = {id}
        /\ req' = [req EXCEPT ![id] = "lockShared"]
        /\ lastOp' = [op |-> "lockShared", id |-> id, ret |-> "promise"]

\* lockShared()
LockShared ==
  /\ NextId <= MaxReq
  /\ LET id == NextId
     IN /\ createPendingLock(id, exclusiveTail)
        /\ sharedGroup' = Append(sharedGroup, id)
        /\ req' = [req EXCEPT ![id] = "lockShared"]
        /\ lastOp' = [op |-> "lockShared", id |-> id, ret |-> "promise"]
        /\ UNCHANGED exclusiveTail

\* tryLockShared() that admits only when the count equals the cohort size.
TryLockSharedEqualTest ==
  IF lockCount # Len(sharedGroup)
  THEN /\ lastOp' = [op |-> "tryLockShared", id |-> 0, ret |-> "null"]
       /\ UNCHANGED mutexVars
  ELSE /\ NextId <= MaxReq
       /\ LET id == NextId
          IN /\ createAcquiredLock(id)
             /\ sharedGroup' = Append(sharedGroup, id)
             /\ req' = [req EXCEPT ![id] = "tryLockShared"]
             /\ lastOp' = [op |-> "tryLockShared", id |-> id, ret |-> "handle"]
             /\ UNCHANGED <<exclusiveTail, lockPromise, gate>>

\* tryLockShared() that appends to the cohort before testing for admission.
TryLockSharedPushesFirst ==
  IF lockCount > Len(sharedGroup)
  THEN /\ NextId <= MaxReq
       /\ Len(sharedGroup) < MaxReq
       /\ sharedGroup' = Append(sharedGroup, NextId)
       /\ lastOp' = [op |-> "tryLockShared", id |-> 0, ret |-> "null"]
       /\ UNCHANGED <<lockCount, exclusiveTail, lockPromise, unlockPromise,
                      gate, unlockFn, req>>
  ELSE /\ NextId <= MaxReq
       /\ LET id == NextId
          IN /\ createAcquiredLock(id)
             /\ sharedGroup' = Append(sharedGroup, id)
             /\ req' = [req EXCEPT ![id] = "tryLockShared"]
             /\ lastOp' = [op |-> "tryLockShared", id |-> id, ret |-> "handle"]
             /\ UNCHANGED <<exclusiveTail, lockPromise, gate>>

\* tryLockShared()
TryLockShared ==
  IF lockCount > Len(sharedGroup)
  THEN /\ lastOp' = [op |-> "tryLockShared", id |-> 0, ret |-> "null"]
       /\ UNCHANGED mutexVars
  ELSE /\ NextId <= MaxReq
       /\ LET id == NextId
          IN /\ createAcquiredLock(id)
             /\ sharedGroup' = Append(sharedGroup, id)
             /\ req' = [req EXCEPT ![id] = "tryLockShared"]
             /\ lastOp' = [op |-> "tryLockShared", id |-> id, ret |-> "handle"]
             /\ UNCHANGED <<exclusiveTail, lockPromise, gate>>

\* resolveLock for an exclusive deferred until no shared reservation at all,
\* earlier or later, is outstanding.
ResolveLockWhenNoReader(i) ==
  /\ lockPromise[i] = "pending"
  /\ Resolved(gate[i])
  /\ req[i] = "lock" => \A s \in Ids : IsShared(s) => ~Outstanding(s)
  /\ lockPromise' = [lockPromise EXCEPT ![i] = "resolved"]
  /\ lastOp' = [op |-> "resolveLock", id |-> i, ret |-> "handle"]
  /\ UNCHANGED <<lockCount, exclusiveTail, sharedGroup, unlockPromise, gate, unlockFn, req>>

\* The callback chained by createPendingLock runs once the promise it was
\* chained on is resolved: resolveLock(handle).
ResolveLock(i) ==
  /\ lockPromise[i] = "pending"
  /\ Resolved(gate[i])
  /\ lockPromise' = [lockPromise EXCEPT ![i] = "resolved"]
  /\ lastOp' = [op |-> "resolveLock", id |-> i, ret |-> "handle"]
  /\ UNCHANGED <<lockCount, exclusiveTail, sharedGroup, unlockPromise, gate, unlockFn, req>>

\* LockHandle.unlock() that keeps unlockFn after invoking it.
UnlockKeepsFn(i) ==
  /\ i \in Created
  /\ Granted(i)
  /\ lockCount > 0 - MaxReq
  /\ IF unlockFn[i]
     THEN /\ recordUnlock
          /\ unlockPromise' = [unlockPromise EXCEPT ![i] = "resolved"]
          /\ lastOp' = [op |-> "unlock", id |-> i,
                        ret |-> IF unlockPromise[i] = "pending" THEN "released" ELSE "again"]
          /\ UNCHANGED unlockFn
     ELSE /\ lastOp' = [op |-> "unlock", id |-> i, ret |-> "noop"]
          /\ UNCHANGED <<lockCount, unlockPromise, unlockFn>>
  /\ UNCHANGED <<exclusiveTail, sharedGroup, lockPromise, gate, req>>

\* LockHandle.unlock() (and [Symbol.dispose]) on a handle the caller was granted.
Unlock(i) ==
  /\ i \in Created
  /\ Granted(i)
  /\ IF unlockFn[i]
     THEN /\ recordUnlock
          /\ unlockPromise' = [unlockPromise EXCEPT ![i] = "resolved"]
          /\ unlockFn' = [unlockFn EXCEPT ![i] = FALSE]
          /\ lastOp' = [op |-> "unlock", id |-> i, ret |-> "released"]
     ELSE /\ lastOp' = [op |-> "unlock", id |-> i, ret |-> "noop"]
          /\ UNCHANGED <<lockCount, unlockPromise, unlockFn>>
  /\ UNCHANGED <<exclusiveTail, sharedGroup, lockPromise, gate, req>>

\* The calls on a SharedMutex used directly, through its handles.
Next ==
  \/ Lock /\ UNCHANGED runnerVars
  \/ TryLock /\ UNCHANGED runnerVars
  \/ LockShared /\ UNCHANGED runnerVars
  \/ TryLockShared /\ UNCHANGED runnerVars
  \/ \E i \in Ids : ResolveLock(i) /\ UNCHANGED runnerVars
  \/ \E i \in Ids : Unlock(i) /\ UNCHANGED runnerVars

Spec == Init /\ [][Next]_vars

\* The promise callbacks run, and every granted handle is eventually unlocked.
LiveSpec ==
  /\ Spec
  /\ \A i \in Ids : WF_vars(ResolveLock(i) /\ UNCHANGED runnerVars)
  /\ \A i \in Ids : WF_vars(Unlock(i) /\ UNCHANGED runnerVars)

\* The promise callbacks run; nothing is assumed about the callers.
CallbackSpec ==
  /\ Spec
  /\ \A i \in Ids : WF_vars(ResolveLock(i) /\ UNCHANGED runnerVars)

(***************************************************************************)
(* AsyncSharedMutex (src/src/core/AsyncSharedMutex.ts): every acquisition  *)
(* goes through the private SharedMutex and run(); the caller never sees   *)
(* a handle.  A task ends by returning a value (possibly through a         *)
(* promise), by rejecting, or by throwing before its first suspension.     *)
(***************************************************************************)
Outcomes == {"value", "reject", "throw"}

\* What the promise returned to the caller settles to for a task outcome.
Settle(o) == IF o = "value" THEN "fulfilled" ELSE "rejected"

\* lock(task): reserve, then await the grant.
AsyncLock ==
  /\ NextId <= MaxTasks
  /\ Lock
  /\ task' = [task EXCEPT ![lastOp'.id] = "awaiting"]
  /\ UNCHANGED <<outcome, settled, taskCalls>>

\* lockShared(task): reserve, then await the grant.
AsyncLockShared ==
  /\ NextId <= MaxTasks
  /\ LockShared
  /\ task' = [task EXCEPT ![lastOp'.id] = "awaiting"]
  /\ UNCHANGED <<outcome, settled, taskCalls>>

\* run() entered synchronously on a handle just made by a try: the task is
\* invoked; a task that throws at once is followed by the finally block in
\* the same turn, so the reservation `id` is created and released in one step.
runOnTry(id, o) ==
  /\ taskCalls' = taskCalls + 1
  /\ outcome' = [outcome EXCEPT ![id] = IF o = "throw" THEN o ELSE "none"]
  /\ settled' = [settled EXCEPT ![id] = IF o = "throw" THEN Settle(o) ELSE "none"]
  /\ task' = [task EXCEPT ![id] = IF o = "throw" THEN "finished" ELSE "running"]

\* tryLock(task) that invokes the task before looking at the handle.
AsyncTryLockRunsFirst ==
  \E o \in Outcomes \ {"throw"} :
    /\ TryLock
    /\ IF lastOp'.ret = "null"
       THEN /\ taskCalls < MaxReq
            /\ taskCalls' = taskCalls + 1
            /\ UNCHANGED <<task, outcome, settled>>
       ELSE NextId <= MaxTasks /\ runOnTry(lastOp'.id, o)

\* tryLock(task)
AsyncTryLock ==
  \E o \in Outcomes :
    IF o # "throw" \/ lockCount > 0
    THEN /\ TryLock
         /\ IF lastOp'.ret = "null"
            THEN UNCHANGED runnerVars
            ELSE NextId <= MaxTasks /\ runOnTry(lastOp'.id, o)
    ELSE /\ NextId <= MaxReq
         /\ NextId <= MaxTasks
         /\ LET id == NextId
            IN /\ unlockPromise' = [unlockPromise EXCEPT ![id] = "resolved"]
               /\ exclusiveTail' = {id}
               /\ req' = [req EXCEPT ![id] = "tryLock"]
               /\ lastOp' = [op |-> "tryLock", id |-> id, ret |-> "handle"]
               /\ runOnTry(id, o)
               /\ UNCHANGED <<lockCount, unlockFn, sharedGroup, lockPromise, gate>>

\* tryLockShared(task)
AsyncTryLockShared ==
  \E o \in Outcomes :
    IF o # "throw" \/ lockCount > Len(sharedGroup)
    THEN /\ TryLockShared
         /\ IF lastOp'.ret = "null"
            THEN UNCHANGED runnerVars
            ELSE NextId <= MaxTasks /\ runOnTry(lastOp'.id, o)
    ELSE /\ NextId <= MaxReq
         /\ NextId <= MaxTasks
         /\ LET id == NextId
            IN /\ unlockPromise' = [unlockPromise EXCEPT ![id] = "resolved"]
               /\ sharedGroup' = Append(sharedGroup, id)
               /\ req' = [req EXCEPT ![id] = "tryLockShared"]
               /\ lastOp' = [op |-> "tryLockShared", id |-> id, ret |-> "handle"]
               /\ runOnTry(id, o)
               /\ UNCHANGED <<lockCount, unlockFn, exclusiveTail, lockPromise, gate>>

\* lock(task) / lockShared(task) resumed after the await: run() invokes the
\* task; a task that throws at once goes straight through the finally block.
RunStart(i) ==
  /\ task[i] = "awaiting"
  /\ lockPromise[i] = "resolved"
  /\ taskCalls' = taskCalls + 1
  /\ \E o \in Outcomes :
       IF o = "throw"
       THEN /\ Unlock(i)
            /\ task' = [task EXCEPT ![i] = "finished"]
            /\ outcome' = [outcome EXCEPT ![i] = o]
            /\ settled' = [settled EXCEPT ![i] = Settle(o)]
       ELSE /\ task' = [task EXCEPT ![i] = "running"]
            /\ lastOp' = [op |-> "run", id |-> i, ret |-> "task"]
            /\ UNCHANGED <<outcome, settled>>
            /\ UNCHANGED mutexVars

\* run() whose release is not in a finally block: a failed task leaves the
\* handle locked.
RunFinishNoFinally(i) ==
  /\ task[i] = "running"
  /\ \E o \in Outcomes \ {"throw"} :
       /\ IF o = "value"
          THEN Unlock(i)
          ELSE /\ lastOp' = [op |-> "run", id |-> i, ret |-> "rejected"]
               /\ UNCHANGED mutexVars
       /\ task' = [task EXCEPT ![i] = "finished"]
       /\ outcome' = [outcome EXCEPT ![i] = o]
       /\ settled' = [settled EXCEPT ![i] = Settle(o)]
  /\ UNCHANGED taskCalls

\* run(): the awaited task has ended; finally { handle.unlock() }, then the
\* result or the failure goes to the caller.
RunFinish(i) ==
  /\ task[i] = "running"
  /\ \E o \in Outcomes \ {"throw"} :
       /\ Unlock(i)
       /\ task' = [task EXCEPT ![i] = "finished"]
       /\ outcome' = [outcome EXCEPT ![i] = o]
       /\ settled' = [settled EXCEPT ![i] = Settle(o)]
  /\ UNCHANGED taskCalls

\* The calls on an AsyncSharedMutex.
RunnerNext ==
  \/ AsyncLock
  \/ AsyncTryLock
  \/ AsyncLockShared
  \/ AsyncTryLockShared
  \/ \E i \in Ids : ResolveLock(i) /\ UNCHANGED runnerVars
  \/ \E i \in Ids : RunStart(i)
  \/ \E i \in Ids : RunFinish(i)

RunnerSpec == Init /\ [][RunnerNext]_vars

\* The promise callbacks run and every task that was started ends.
RunnerLiveSpec ==
  /\ RunnerSpec
  /\ \A i \in Ids : WF_vars(ResolveLock(i) /\ UNCHANGED runnerVars)
  /\ \A i \in Ids : WF_vars(RunStart(i))
  /\ \A i \in Ids : WF_vars(RunFinish(i))

TypeOK ==
  /\ lockCount \in 0..MaxReq
  /\ exclusiveTail \subseteq Ids
  /\ Range(sharedGroup) \subseteq Ids
  /\ \A i \in Ids : gate[i] \subseteq Ids

(***************************************************************************)
(* Ordering and exclusion properties                                       *)
(***************************************************************************)

\* C1: mutual exclusion -- no exclusive handle is held (granted and not yet
\* unlocked) while any other handle, shared or exclusive, is held.
MutualExclusion ==
  \A e \in Ids : \A h \in Ids :
    (e # h /\ IsExclusive(e) /\ Held(e)) => ~Held(h)

\* C2: exclusives are serialized in request order -- for exclusives e1
\* requested before e2, the grant of e2 is resolved only when the handle of
\* e1 has been unlocked.
ExclusivesSerialized ==
  \A e1 \in Ids : \A e2 \in Ids :
    (e1 < e2 /\ IsExclusive(e1) /\ IsExclusive(e2) /\ e2 \in Created /\ Granted(e2))
      => unlockPromise[e1] = "resolved"

\* C3: an exclusive made by lock() waits for every earlier shared request --
\* its grant is resolved only when the handle of every shared request made
\* before it has been unlocked.
ExclusiveWaitsForEarlierShared ==
  \A s \in Ids : \A e \in Ids :
    (s < e /\ IsShared(s) /\ req[e] = "lock" /\ Granted(e))
      => unlockPromise[s] = "resolved"

\* A lock() request holds its handle after shared requests of an earlier
\* cohort (s1, folded by e0) and of the current cohort (s2).
WitExclusiveWaitsForEarlierShared ==
  \E s1 \in Ids : \E s2 \in Ids : \E e0 \in Ids : \E e \in Ids :
    /\ s1 < e0 /\ e0 < s2 /\ s2 < e
    /\ IsShared(s1) /\ req[e0] = "lock" /\ req[s2] = "lockShared" /\ req[e] = "lock"
    /\ Held(e)

\* C4: readers cannot overtake a pending or active writer -- the grant of a
\* lockShared() request made after exclusive e was requested is resolved only
\* when the handle of e has been unlocked.
ReadersDoNotOvertake ==
  \A e \in Ids : \A s \in Ids :
    (e < s /\ IsExclusive(e) /\ req[s] = "lockShared" /\ Granted(s))
      => unlockPromise[e] = "resolved"

\* Some exclusive reservation, granted or still queued, is not yet unlocked.
ExclusiveOutstanding == \E e \in Ids : IsExclusive(e) /\ Outstanding(e)

\* Some reservation of either mode is not yet unlocked.
AnyOutstanding == \E i \in Ids : Outstanding(i)

\* C5: tryLockShared() returns null if and only if an exclusive reservation
\* is outstanding at the moment of the call.
TryLockSharedNullIffExclusiveOutstanding ==
  [][lastOp'.op = "tryLockShared" =>
       ((lastOp'.ret = "null") <=> ExclusiveOutstanding)]_vars

\* C6: tryLock() returns null if and only if at least one reservation has
\* not been unlocked at the moment of the call.
TryLockNullIffAnyOutstanding ==
  [][lastOp'.op = "tryLock" =>
       ((lastOp'.ret = "null") <=> AnyOutstanding)]_vars

\* A tryLock() has just returned a handle on a mutex with an earlier history
\* of exclusive and shared reservations, all of them unlocked.
WitTryLockNullIffAnyOutstanding ==
  /\ lastOp.op = "tryLock" /\ lastOp.ret = "handle"
  /\ \E e \in Ids : \E s \in Ids :
       /\ e < lastOp.id /\ s < lastOp.id
       /\ IsExclusive(e) /\ IsShared(s)
       /\ unlockPromise[e] = "resolved" /\ unlockPromise[s] = "resolved"

\* C7: a failed try has no effect -- when tryLock() or tryLockShared()
\* returns null, lockCount, the exclusive tail, the shared cohort and every
\* promise and handle are unchanged.
FailedTryHasNoEffect ==
  [][(lastOp'.op \in {"tryLock", "tryLockShared"} /\ lastOp'.ret = "null")
       => UNCHANGED mutexVars]_vars

\* A try has just failed on a mutex with a queued and a held reservation.
WitFailedTryHasNoEffect ==
  /\ lastOp.op \in {"tryLock", "tryLockShared"} /\ lastOp.ret = "null"
  /\ \E i \in Ids : Queued(i)
  /\ \E i \in Ids : Held(i)

(***************************************************************************)
(* Progress and batching                                                   *)
(***************************************************************************)

\* C8: eventual grant -- when every granted handle is eventually unlocked,
\* every lock() and lockShared() request is eventually granted.
EventualGrant ==
  \A i \in Ids : Queued(i) ~> Granted(i)

\* A lock() and a lockShared() request are queued behind a held handle.
WitEventualGrant ==
  \E h \in Ids : \E e \in Ids : \E s \in Ids :
    /\ Held(h)
    /\ req[e] = "lock" /\ Queued(e) /\ h \in gate[e]
    /\ req[s] = "lockShared" /\ Queued(s) /\ gate[s] = {e}

\* Every reservation made before e has been unlocked.
EarlierAllUnlocked(e) == \A i \in 1..(e - 1) : unlockPromise[i] = "resolved"

\* C9: no writer starvation -- the grant of a lock() request e waits only
\* for reservations made before e, and once all of those are unlocked e is
\* granted whatever shared requests were made after it and whether or not
\* they are unlocked.
NoWriterStarvation ==
  /\ [](\A e \in Ids : req[e] = "lock" => gate[e] \subseteq 1..(e - 1))
  /\ \A e \in Ids :
       (req[e] = "lock" /\ Queued(e) /\ EarlierAllUnlocked(e)) ~> Granted(e)

\* A lock() request that had to wait is granted while two lockShared()
\* requests made after it are outstanding.
WitNoWriterStarvation ==
  \E e \in Ids : \E s \in Ids : \E t \in Ids :
    /\ req[e] = "lock" /\ Held(e) /\ gate[e] # {}
    /\ e < s /\ s < t
    /\ req[s] = "lockShared" /\ Outstanding(s)
    /\ req[t] = "lockShared" /\ Outstanding(t)

\* No exclusive request was made between reservations s and t.
SameTail(s, t) == \A k \in Ids : (s < k /\ k < t) => ~IsExclusive(k)

\* C10: reader batching -- lockShared() requests made while the exclusive
\* tail is unchanged are all chained on that same tail, which waits for no
\* shared handle, so they are granted together once it resolves.
ReaderBatching ==
  \A s \in Ids : \A t \in Ids :
    (s < t /\ req[s] = "lockShared" /\ req[t] = "lockShared" /\ SameTail(s, t))
      => /\ gate[s] = gate[t]
         /\ \A j \in gate[t] : IsExclusive(j)

\* Two lockShared() requests that waited for the same exclusive hold their
\* handles at the same time.
WitReaderBatching ==
  \E s \in Ids : \E t \in Ids :
    /\ s < t /\ req[s] = "lockShared" /\ req[t] = "lockShared"
    /\ gate[s] # {} /\ gate[s] = gate[t]
    /\ Held(s) /\ Held(t)

(***************************************************************************)
(* Lock handle and bookkeeping                                             *)
(***************************************************************************)

\* C11: idempotent release -- the first unlock() (or dispose) of a handle
\* decrements lockCount by one and resolves its release signal; every later
\* call on the same handle changes nothing.
IdempotentRelease ==
  [][\A i \in Ids :
       (lastOp'.op = "unlock" /\ lastOp'.id = i) =>
         IF unlockPromise[i] = "pending"
         THEN /\ lockCount' = lockCount - 1
              /\ unlockPromise' = [unlockPromise EXCEPT ![i] = "resolved"]
         ELSE UNCHANGED mutexVars]_vars

\* A handle that was already unlocked has just been unlocked again while
\* another reservation is outstanding.
WitIdempotentRelease ==
  /\ lastOp.op = "unlock" /\ lastOp.ret = "noop"
  /\ unlockPromise[lastOp.id] = "resolved"
  /\ \E j \in Ids : Outstanding(j)

\* C14: an abandoned handle blocks its successors -- while a granted handle h
\* is not unlocked, no lock() request made after h is granted, and if h is
\* exclusive no lockShared() request made after h is granted.
AbandonedHandleBlocksSuccessors ==
  \A h \in Ids : \A x \in Ids :
    (h < x /\ Held(h) /\ (req[x] = "lock" \/ (IsExclusive(h) /\ req[x] = "lockShared")))
      => ~Granted(x)

\* C15: lockCount is never negative and equals the number of reservations
\* whose handle has not been unlocked, granted or not.
LockCountIsOutstanding ==
  /\ lockCount >= 0
  /\ lockCount = Cardinality({i \in Ids : Outstanding(i)})

\* Two reservations are outstanding, one queued and one held, and a handle
\* has been unlocked a second time.
WitLockCountIsOutstanding ==
  /\ \E i \in Ids : Queued(i)
  /\ \E i \in Ids : Held(i)
  /\ lastOp.op = "unlock" /\ lastOp.ret = "noop"
  /\ lockCount = 2

\* The shared requests made since the last exclusive request.
SharedSinceLastExclusive ==
  {s \in Created : IsShared(s) /\ \A k \in Created : k > s => ~IsExclusive(k)}

\* C16: the shared cohort holds exactly the release signals of the shared
\* requests made since the last exclusive request (lock() or successful
\* tryLock()), so it is empty right after every exclusive request.
CohortClearedByExclusive ==
  Range(sharedGroup) = SharedSinceLastExclusive

ReservationCountedBeforeGrant ==
  [][/\ (lastOp'.op = "tryLock" /\ \E i \in Ids : Queued(i))
          => lastOp'.ret = "null"
     /\ (lastOp'.op = "tryLockShared" /\ \E e \in Ids : req[e] = "lock" /\ Outstanding(e))
          => lastOp'.ret = "null"]_vars

\* A try has just failed while the only outstanding reservation was a
\* request whose grant was ready but not yet resolved.
WitReservationCountedBeforeGrant ==
  /\ lastOp.op \in {"tryLock", "tryLockShared"} /\ lastOp.ret = "null"
  /\ lockCount = 1
  /\ \E i \in Ids : Queued(i) /\ Resolved(gate[i])

\* C19: lock() and a successful tryLock() leave their own release signal as
\* the exclusive tail; no other call changes the tail, and lockShared() and
\* a successful tryLockShared() only append their release signal to the
\* shared cohort.
WhoMovesTheTail ==
  [][/\ (lastOp'.op = "lock" \/ (lastOp'.op = "tryLock" /\ lastOp'.ret = "handle"))
          => exclusiveTail' = {lastOp'.id}
     /\ ~(lastOp'.op = "lock" \/ (lastOp'.op = "tryLock" /\ lastOp'.ret = "handle"))
          => UNCHANGED exclusiveTail
     /\ (lastOp'.op = "lockShared" \/ (lastOp'.op = "tryLockShared" /\ lastOp'.ret = "handle"))
          => sharedGroup' = Append(sharedGroup, lastOp'.id)]_vars

\* The tail is the release signal of a tryLock() handle and the cohort has
\* been appended to by lockShared() since.
WitWhoMovesTheTail ==
  \E e \in Ids :
    /\ req[e] = "tryLock" /\ exclusiveTail = {e}
    /\ lastOp.op = "lockShared"
    /\ Len(sharedGroup) >= 2

\* C20: folding never drops an outstanding exclusive -- when lock() replaces
\* the tail by the combined signal of a non-empty cohort, either the tail is
\* already resolved or the cohort has a member whose grant still waits for
\* that tail, so the combined signal cannot resolve before the tail.
FoldingKeepsTheChain ==
  [][(lastOp'.op = "lock" /\ Len(sharedGroup) > 0)
       => \/ Resolved(exclusiveTail)
          \/ \E s \in Range(sharedGroup) : Queued(s) /\ gate[s] = exclusiveTail]_vars

(***************************************************************************)
(* Task runner                                                             *)
(***************************************************************************)

\* C12: the task runner always releases -- the handle stays locked while the
\* task is awaited or running, it is unlocked in the very step in which the
\* task ends, whether it returned, rejected or threw, the caller's promise
\* settles as the task ended, and every acquisition waiting behind it gets
\* to run.
TaskRunnerAlwaysReleases ==
  /\ [](\A i \in Ids :
          /\ task[i] \in {"awaiting", "running"} => Outstanding(i)
          /\ task[i] = "finished" =>
               /\ unlockPromise[i] = "resolved"
               /\ outcome[i] \in Outcomes
               /\ settled[i] = Settle(outcome[i]))
  /\ [][\A i \in Ids :
          (unlockPromise[i] # "resolved" /\ unlockPromise'[i] = "resolved")
            => /\ task[i] # "finished" /\ task'[i] = "finished"
               /\ lockCount' = IF unlockPromise[i] = "pending"
                               THEN lockCount - 1 ELSE lockCount]_vars
  /\ \A i \in Ids : (task[i] = "awaiting") ~> (task[i] = "finished")

\* A task run under lock() has failed and an acquisition that was queued
\* behind it has run to its end with a value.
WitTaskRunnerAlwaysReleases ==
  \E i \in Ids : \E j \in Ids :
    /\ i < j
    /\ req[i] = "lock" /\ task[i] = "finished" /\ settled[i] = "rejected"
    /\ req[j] = "lock" /\ gate[j] = {i}
    /\ task[j] = "finished" /\ settled[j] = "fulfilled"

\* C13: a failed tryLock(task) or tryLockShared(task) returns null without
\* invoking the task and without changing the mutex; a successful one
\* invokes the task once, with the handle held unless the task threw at
\* once; no acquisition has its task invoked twice.
TryRunsTaskOnlyOnSuccess ==
  /\ [][lastOp'.op \in {"tryLock", "tryLockShared"} =>
          IF lastOp'.ret = "null"
          THEN UNCHANGED <<mutexVars, runnerVars>>
          ELSE /\ taskCalls' = taskCalls + 1
               /\ task[lastOp'.id] = "none"
               /\ task'[lastOp'.id] \in {"running", "finished"}
               /\ task'[lastOp'.id] = "running" => unlockPromise'[lastOp'.id] = "pending"]_vars
  /\ [](taskCalls = Cardinality({i \in Ids : task[i] \in {"running", "finished"}}))

\* tryLock(task) has just returned null while a task started by an earlier
\* successful try is still running.
WitTryRunsTaskOnlyOnSuccess ==
  /\ lastOp.op = "tryLock" /\ lastOp.ret = "null"
  /\ taskCalls = 1
  /\ \E i \in Ids : req[i] \in {"tryLock", "tryLockShared"} /\ task[i] = "running"
====
